---- MODULE Spec2Model ----
(***************************************************************************)
(* Base58 and Base58Check (bitcoin/base58.py): encode, decode and the      *)
(* CBase58Data class (__new__, from_bytes, __str__).                       *)
(*                                                                         *)
(* Bytes are sequences of integers 0..255, text is a sequence of           *)
(* one-character strings, and Python's unbounded int is a little-endian    *)
(* sequence of digits in base IntBase without high-order zeros (the        *)
(* integer 0 is the empty sequence).                                       *)
(***************************************************************************)
EXTENDS Integers, Sequences, FiniteSets, TLC

\* ---------------------------------------------------------------- bounds
MaxBytes == 5      \* longest byte string drawn as an input
MaxStr   == 3      \* longest text drawn as an input
MaxCalls == 3      \* calls made in one run

ByteVals == {0, 58, 255}                \* byte values the inputs are drawn from
CharVals == {"1", "2", "z", "0", "O"}   \* characters the inputs are drawn from
HashVals == {0, 255}                    \* byte values the digests are made of
Versions == {-1, 0, 255, 256}           \* nVersion arguments tried

\* ------------------------------------------------------- Python integers
IntBase == 2^15

RECURSIVE IntNorm(_)
IntNorm(n) ==
    IF n = <<>> THEN <<>>
    ELSE IF n[Len(n)] = 0 THEN IntNorm(SubSeq(n, 1, Len(n) - 1))
    ELSE n

RECURSIVE IntMulAddRaw(_, _, _)
IntMulAddRaw(n, m, c) ==
    IF n = <<>> THEN (IF c = 0 THEN <<>> ELSE <<c>>)
    ELSE LET t == Head(n) * m + c
         IN  <<t % IntBase>> \o IntMulAddRaw(Tail(n), m, t \div IntBase)

\* n * m + a
IntMulAdd(n, m, a) == IntNorm(IntMulAddRaw(n, m, a))

RECURSIVE IntDivModRaw(_, _)
IntDivModRaw(n, d) ==
    IF n = <<>> THEN [q |-> <<>>, r |-> 0]
    ELSE LET hi == IntDivModRaw(Tail(n), d)
             t  == hi.r * IntBase + Head(n)
         IN  [q |-> <<t \div d>> \o hi.q, r |-> t % d]

\* divmod(n, d)
divmod(n, d) ==
    LET dm == IntDivModRaw(n, d) IN [q |-> IntNorm(dm.q), r |-> dm.r]

\* ------------------------------------------------------------ hex and bytes
\* binascii.hexlify: two hex digits per byte, high nibble first
RECURSIVE hexlify(_)
hexlify(b) ==
    IF b = <<>> THEN <<>>
    ELSE <<Head(b) \div 16, Head(b) % 16>> \o hexlify(Tail(b))

\* int(h, 16)
RECURSIVE IntFromHexAcc(_, _)
IntFromHexAcc(h, n) ==
    IF h = <<>> THEN n ELSE IntFromHexAcc(Tail(h), IntMulAdd(n, 16, Head(h)))

IntFromHex(h) == IntFromHexAcc(h, <<>>)

RECURSIVE HexDigitsOf(_)
HexDigitsOf(n) ==
    IF n = <<>> THEN <<>>
    ELSE LET dm == divmod(n, 16) IN HexDigitsOf(dm.q) \o <<dm.r>>

HexFormat_NoZero(n) == HexDigitsOf(n)

\* '%x' % n
HexFormat(n) == IF n = <<>> THEN <<0>> ELSE HexDigitsOf(n)

\* binascii.unhexlify, of an even number of hex digits
RECURSIVE unhexlify(_)
unhexlify(h) ==
    IF h = <<>> THEN <<>>
    ELSE <<h[1] * 16 + h[2]>> \o unhexlify(SubSeq(h, 3, Len(h)))

\* ----------------------------------------------------------------- alphabet
b58_digits ==
  << "1", "2", "3", "4", "5", "6", "7", "8", "9", "A",
     "B", "C", "D", "E", "F", "G", "H", "J", "K", "L",
     "M", "N", "P", "Q", "R", "S", "T", "U", "V", "W",
     "X", "Y", "Z", "a", "b", "c", "d", "e", "f", "g",
     "h", "i", "j", "k", "m", "n", "o", "p", "q", "r",
     "s", "t", "u", "v", "w", "x", "y", "z" >>

IsB58Digit(c) == \E i \in 1..Len(b58_digits) : b58_digits[i] = c

\* b58_digits.index(c)
B58Index(c) == (CHOOSE i \in 1..Len(b58_digits) : b58_digits[i] = c) - 1

\* ------------------------------------------------------------------- encode
EncodeDigits_Unreversed(n) ==
    LET RECURSIVE Go(_)
        Go(m) == IF m = <<>> THEN <<>>
                 ELSE LET dm == divmod(m, 58)
                      IN  <<b58_digits[dm.r + 1]>> \o Go(dm.q)
    IN  Go(n)

\* the division loop and res[::-1]
RECURSIVE EncodeDigits(_)
EncodeDigits(n) ==
    IF n = <<>> THEN <<>>
    ELSE LET dm == divmod(n, 58)
         IN  EncodeDigits(dm.q) \o <<b58_digits[dm.r + 1]>>

EncodePad_NoBreak(b) == Cardinality({i \in 1..Len(b) : b[i] = 0})

\* the pad loop: leading zero bytes of b
RECURSIVE EncodePad(_)
EncodePad(b) ==
    IF b = <<>> THEN 0
    ELSE IF Head(b) = 0 THEN 1 + EncodePad(Tail(b))
    ELSE 0

encode(b) ==
    LET n   == IntFromHex(<<0>> \o hexlify(b))
        res == EncodeDigits(n)
        pad == EncodePad(b)
    IN  [i \in 1..pad |-> b58_digits[1]] \o res

\* ------------------------------------------------------------------- decode
NoErr == "none"

DecodeLoop_LastBad(s, n0) ==
    LET bad == {i \in 1..Len(s) : ~IsB58Digit(s[i])}
        RECURSIVE Go(_, _)
        Go(t, n) == IF t = <<>> THEN n
                    ELSE Go(Tail(t), IntMulAdd(n, 58, B58Index(Head(t))))
    IN  IF bad # {}
        THEN [err |-> "InvalidBase58Error",
              char |-> s[CHOOSE i \in bad : \A j \in bad : j <= i], n |-> <<>>]
        ELSE [err |-> NoErr, char |-> "", n |-> Go(s, n0)]

\* the accumulation loop: n = n*58 + digit, raising at the first bad character
RECURSIVE DecodeLoop(_, _)
DecodeLoop(s, n) ==
    IF s = <<>> THEN [err |-> NoErr, char |-> "", n |-> n]
    ELSE IF ~IsB58Digit(Head(s))
         THEN [err |-> "InvalidBase58Error", char |-> Head(s), n |-> <<>>]
         ELSE DecodeLoop(Tail(s), IntMulAdd(n, 58, B58Index(Head(s))))

DecodePadRange_Whole(s) == s

\* s[:-1]
DecodePadRange(s) == SubSeq(s, 1, Len(s) - 1)

\* the pad loop: leading b58_digits[0] characters of t
RECURSIVE DecodePad(_)
DecodePad(t) ==
    IF t = <<>> THEN 0
    ELSE IF Head(t) = b58_digits[1] THEN 1 + DecodePad(Tail(t))
    ELSE 0

decode(s) ==
    IF s = <<>> THEN [err |-> NoErr, char |-> "", val |-> <<>>]
    ELSE LET lp == DecodeLoop(s, <<>>)
         IN  IF lp.err # NoErr
             THEN [err |-> lp.err, char |-> lp.char, val |-> <<>>]
             ELSE LET h0  == HexFormat(lp.n)
                      h   == IF Len(h0) % 2 = 1 THEN <<0>> \o h0 ELSE h0
                      res == unhexlify(h)
                      pad == DecodePad(DecodePadRange(s))
                  IN  [err |-> NoErr, char |-> "",
                       val |-> [i \in 1..pad |-> 0] \o res]

\* ---------------------------------------------------------- Python slicing
\* the index i of a slice of a sequence of length n, clamped as Python does
PyIndex(i, n) ==
    IF i < 0 THEN (IF n + i < 0 THEN 0 ELSE n + i)
    ELSE IF i > n THEN n ELSE i

\* x[lo:hi]
PySlice(x, lo, hi) ==
    SubSeq(x, PyIndex(lo, Len(x)) + 1, PyIndex(hi, Len(x)))

\* x[lo:]
PySliceFrom(x, lo) == SubSeq(x, PyIndex(lo, Len(x)) + 1, Len(x))

\* ------------------------------------------------------------------- Hash
\* bitcoin.core.Hash is outside this module: a function from bytes to a
\* 32-byte digest, of which nothing else is assumed.  Its values are fixed
\* the first time an argument is hashed and recorded in hashed.
DigestLen == 32

HashDigests == {[i \in 1..DigestLen |-> v] : v \in HashVals}

HashChoices(memo, x) ==
    IF \E m \in memo : m.arg = x
    THEN {m.digest : m \in {mm \in memo : mm.arg = x}}
    ELSE HashDigests

\* ----------------------------------------------------------- CBase58Data
None == [live |-> FALSE, nVersion |-> 0, data |-> <<>>]

Instance(v, d) == [live |-> TRUE, nVersion |-> v, data |-> d]

\* verbyte, data, check0 = k[0:1], k[1:-4], k[-4:]
NewSplit(k) ==
    [verbyte |-> PySlice(k, 0, 1),
     data    |-> PySlice(k, 1, -4),
     check0  |-> PySliceFrom(k, -4)]

\* the argument of Hash in __new__
NewHashArg(k) == NewSplit(k).verbyte \o NewSplit(k).data

ChecksumEqual_Prefix3(check0, check1) ==
    PySlice(check0, 0, 3) = PySlice(check1, 0, 3)

\* check0 != check1, negated
ChecksumEqual(check0, check1) == check0 = check1

\* CBase58Data.__new__(cls, s), digest being Hash(verbyte + data)
CBase58Data_new(s, digest) ==
    LET d == decode(s)
    IN  IF d.err # NoErr
        THEN [err |-> d.err, char |-> d.char, obj |-> None]
        ELSE LET sp     == NewSplit(d.val)
                 check1 == PySlice(digest, 0, 4)
             IN  IF ~ChecksumEqual(sp.check0, check1)
                 THEN [err |-> "Base58ChecksumError", char |-> "", obj |-> None]
                 ELSE IF sp.verbyte = <<>>
                      THEN [err |-> "IndexError", char |-> "", obj |-> None]
                      ELSE [err |-> NoErr, char |-> "",
                            obj |-> Instance(sp.verbyte[1], sp.data)]

VersionInRange_Exclusive(nVersion) == 0 < nVersion /\ nVersion < 255

\* 0 <= nVersion <= 255
VersionInRange(nVersion) == 0 <= nVersion /\ nVersion <= 255

\* CBase58Data.from_bytes(cls, data, nVersion)
from_bytes(data, nVersion) ==
    IF ~VersionInRange(nVersion)
    THEN [err |-> "ValueError", obj |-> None]
    ELSE [err |-> NoErr, obj |-> Instance(nVersion, data)]

StrHashArg_DataOnly(self) == self.data

\* vs = bchr(self.nVersion) + self
StrHashArg(self) == <<self.nVersion>> \o self.data

\* CBase58Data.__str__(self), digest being Hash(vs)
CBase58Data_str(self, digest) ==
    LET vs    == StrHashArg(self)
        check == PySlice(digest, 0, 4)
    IN  encode(vs \o check)

\* --------------------------------------------------------------- the program
\* One run evaluates a chain of calls, each applied to the value the previous
\* one returned; a call that raises ends the run.
VARIABLES
    val,      \* the current value: bytes, text, a CBase58Data instance, or raised
    hashed,   \* the arguments Hash was called with, and their digests
    trace     \* the calls made so far: operation, argument, result

vars == <<val, hashed, trace>>

BytesVal(x) == [type |-> "bytes", bytes |-> x, text |-> <<>>, obj |-> None]
TextVal(x)  == [type |-> "str", bytes |-> <<>>, text |-> x, obj |-> None]
ObjVal(x)   == [type |-> "obj", bytes |-> <<>>, text |-> <<>>, obj |-> x]
Raised      == [type |-> "raised", bytes |-> <<>>, text |-> <<>>, obj |-> None]

RECURSIVE SeqsUpTo(_, _)
SeqsUpTo(S, n) ==
    IF n = 0 THEN {<<>>}
    ELSE LET shorter == SeqsUpTo(S, n - 1)
         IN  shorter \cup {Append(x, e) : x \in {y \in shorter : Len(y) = n - 1}, e \in S}

Init ==
    /\ \/ \E x \in SeqsUpTo(ByteVals, MaxBytes) : val = BytesVal(x)
       \/ \E x \in SeqsUpTo(CharVals, MaxStr) : val = TextVal(x)
    /\ hashed = {}
    /\ trace = <<>>

Call(op, arg, out) == [op |-> op, arg |-> arg, out |-> out]

\* encode(b)
Encode ==
    /\ Len(trace) < MaxCalls
    /\ val.type = "bytes"
    /\ val' = TextVal(encode(val.bytes))
    /\ trace' = Append(trace, Call("encode", val.bytes, val'.text))
    /\ UNCHANGED hashed

\* decode(s)
Decode ==
    /\ Len(trace) < MaxCalls
    /\ val.type = "str"
    /\ LET r == decode(val.text)
       IN  /\ val' = IF r.err = NoErr THEN BytesVal(r.val) ELSE Raised
           /\ trace' = Append(trace, Call("decode", val.text, r))
    /\ UNCHANGED hashed

\* CBase58Data(s)
New ==
    /\ Len(trace) < MaxCalls
    /\ val.type = "str"
    /\ LET d == decode(val.text)
       IN  IF d.err # NoErr
           THEN /\ val' = Raised
                /\ trace' = Append(trace,
                       Call("new", val.text, CBase58Data_new(val.text, <<>>)))
                /\ UNCHANGED hashed
           ELSE \E digest \in HashChoices(hashed, NewHashArg(d.val)) :
                  LET r == CBase58Data_new(val.text, digest)
                  IN  /\ hashed' = hashed \cup
                                     {[arg |-> NewHashArg(d.val), digest |-> digest]}
                      /\ val' = IF r.err = NoErr THEN ObjVal(r.obj) ELSE Raised
                      /\ trace' = Append(trace, Call("new", val.text, r))

\* CBase58Data.from_bytes(b, nVersion)
FromBytes ==
    /\ Len(trace) < MaxCalls
    /\ val.type = "bytes"
    /\ \E nVersion \in Versions :
         LET r == from_bytes(val.bytes, nVersion)
         IN  /\ val' = IF r.err = NoErr THEN ObjVal(r.obj) ELSE Raised
             /\ trace' = Append(trace,
                    Call("from_bytes", [data |-> val.bytes, nVersion |-> nVersion], r))
    /\ UNCHANGED hashed

\* str(obj)
Str ==
    /\ Len(trace) < MaxCalls
    /\ val.type = "obj"
    /\ \E digest \in HashChoices(hashed, StrHashArg(val.obj)) :
         /\ hashed' = hashed \cup {[arg |-> StrHashArg(val.obj), digest |-> digest]}
         /\ val' = TextVal(CBase58Data_str(val.obj, digest))
         /\ trace' = Append(trace, Call("str", val.obj, val'.text))

Next == Encode \/ Decode \/ New \/ FromBytes \/ Str

Spec == Init /\ [][Next]_vars

\* ------------------------------------------------------------- properties
Calls == 1..Len(trace)

Op(i, op) == i \in Calls /\ trace[i].op = op

\* the number of leading elements of x equal to e
LeadingCount(x, e) ==
    IF \A j \in 1..Len(x) : x[j] = e THEN Len(x)
    ELSE (CHOOSE j \in 1..Len(x) : x[j] # e /\ \A l \in 1..(j - 1) : x[l] = e) - 1

\* the positions of s holding a character outside the 58-symbol alphabet
BadPositions(s) ==
    {j \in 1..Len(s) : \A d \in 1..Len(b58_digits) : b58_digits[d] # s[j]}

LeftmostBad(s) == CHOOSE j \in BadPositions(s) : \A l \in BadPositions(s) : j <= l

\* the first four bytes of the digest Hash returned for x
Checksum(x) == SubSeq((CHOOSE m \in hashed : m.arg = x).digest, 1, 4)

\* C1: decode(encode(b)) = b for every byte string b, the empty one, the
\* all-zero ones and those with leading zero bytes included.
C1_RoundTrip ==
    \A i \in Calls :
        Op(i, "encode") /\ Op(i + 1, "decode")
            => /\ trace[i + 1].out.err = NoErr
               /\ trace[i + 1].out.val = trace[i].arg

C1_Witness ==
    /\ Op(1, "encode") /\ Op(2, "decode")
    /\ trace[1].arg = <<0, 0, 255>>
    /\ trace[2].out.val = <<0, 0, 255>>

\* C2: for every version v in 0..255 and payload p, parsing the text that
\* str(CBase58Data.from_bytes(p, v)) returns succeeds with version v and payload p.
C2_ChecksumRoundTrip ==
    \A i \in Calls :
        /\ Op(i, "from_bytes") /\ trace[i].arg.nVersion \in 0..255
        /\ Op(i + 1, "str") /\ Op(i + 2, "new")
        => /\ trace[i + 2].out.err = NoErr
           /\ trace[i + 2].out.obj.live
           /\ trace[i + 2].out.obj.nVersion = trace[i].arg.nVersion
           /\ trace[i + 2].out.obj.data = trace[i].arg.data

C2_Witness ==
    /\ Op(1, "from_bytes") /\ Op(2, "str") /\ Op(3, "new")
    /\ trace[1].arg = [data |-> <<>>, nVersion |-> 0]
    /\ trace[3].out.err = NoErr
    /\ trace[3].out.obj = Instance(0, <<>>)

\* C3: CBase58Data(s) of a valid text s that decodes to fewer than 5 bytes
\* fails with MalformedPayload: it neither succeeds nor reports a checksum
\* mismatch.
C3_ShortIsMalformed ==
    \A i \in Calls :
        /\ Op(i, "new")
        /\ BadPositions(trace[i].arg) = {}
        /\ Len(decode(trace[i].arg).val) < 5
        => trace[i].out.err = "MalformedPayload"

\* C4: CBase58Data(s) of a valid text s decoding to k of at least 5 bytes
\* succeeds exactly when k[-4:] is the first four bytes of Hash(k[:-4]); it
\* fails with Base58ChecksumError (not InvalidBase58Error) otherwise, and on
\* success the version is k[0] and the payload k[1:-4].
C4_ChecksumDecides ==
    \A i \in Calls :
        /\ Op(i, "new")
        /\ BadPositions(trace[i].arg) = {}
        /\ Len(decode(trace[i].arg).val) >= 5
        => LET k       == decode(trace[i].arg).val
               claimed == SubSeq(k, Len(k) - 3, Len(k))
               actual  == Checksum(SubSeq(k, 1, Len(k) - 4))
               out     == trace[i].out
           IN  /\ (out.err = NoErr) <=> (claimed = actual)
               /\ claimed # actual =>
                     /\ out.err = "Base58ChecksumError"
                     /\ out.err # "InvalidBase58Error"
               /\ out.err = NoErr =>
                     /\ out.obj.live
                     /\ out.obj.nVersion = k[1]
                     /\ out.obj.data = SubSeq(k, 2, Len(k) - 4)

C4_Witness ==
    /\ Op(1, "encode") /\ Op(2, "new")
    /\ trace[1].arg = <<255, 0, 0, 0, 0>>
    /\ trace[2].out.err = NoErr
    /\ trace[2].out.obj = Instance(255, <<>>)

\* C5: decode(s) fails exactly when s holds a character outside the alphabet,
\* only with InvalidBase58Error, naming the leftmost such character; and
\* CBase58Data(s) of such an s fails with the same error.
C5_InvalidAlphabet ==
    \A i \in Calls :
        /\ Op(i, "decode") =>
              /\ trace[i].out.err \in {NoErr, "InvalidBase58Error"}
              /\ (trace[i].out.err = "InvalidBase58Error")
                     <=> (BadPositions(trace[i].arg) # {})
        /\ (Op(i, "decode") \/ Op(i, "new")) /\ BadPositions(trace[i].arg) # {} =>
              /\ trace[i].out.err = "InvalidBase58Error"
              /\ trace[i].out.char = trace[i].arg[LeftmostBad(trace[i].arg)]

C5_Witness ==
    /\ Op(1, "decode")
    /\ trace[1].arg = <<"1", "O", "0">>
    /\ trace[1].out.err = "InvalidBase58Error"
    /\ trace[1].out.char = "O"

\* C6: from_bytes(p, v) fails with ValueError exactly when v is outside
\* 0..255, and then nothing is encoded; otherwise str of the instance is
\* encode(v || p || first four bytes of Hash(v || p)).
C6_VersionBound ==
    \A i \in Calls :
        Op(i, "from_bytes") =>
            LET v == trace[i].arg.nVersion
                p == trace[i].arg.data
            IN  /\ trace[i].out.err \in {NoErr, "ValueError"}
                /\ (trace[i].out.err = "ValueError") <=> (v \notin 0..255)
                /\ trace[i].out.err = "ValueError" =>
                      /\ ~trace[i].out.obj.live
                      /\ i = Len(trace)
                      /\ val.type = "raised"
                /\ trace[i].out.err = NoErr =>
                      /\ trace[i].out.obj = Instance(v, p)
                      /\ Op(i + 1, "str") =>
                            trace[i + 1].out =
                                encode(<<v>> \o p \o Checksum(<<v>> \o p))

C6_Witness ==
    /\ Op(1, "from_bytes") /\ Op(2, "str")
    /\ trace[1].arg = [data |-> <<58>>, nVersion |-> 255]
    /\ trace[2].out # <<>>

\* C7: encode(b) is k copies of "1" for the k leading zero bytes of b,
\* followed by nothing when b is all zeros and otherwise by digits that do
\* not start with "1".
C7_LeadingZeros ==
    \A i \in Calls :
        Op(i, "encode") =>
            LET arg == trace[i].arg
                out == trace[i].out
                k   == LeadingCount(arg, 0)
            IN  /\ Len(out) >= k
                /\ \A j \in 1..k : out[j] = "1"
                /\ IF k = Len(arg) THEN Len(out) = k
                   ELSE Len(out) > k /\ out[k + 1] # "1"

C7_Witness ==
    /\ Op(1, "encode")
    /\ trace[1].arg = <<0, 255, 0>>
    /\ Len(trace[1].out) > 1 /\ trace[1].out[1] = "1" /\ trace[1].out[2] # "1"

\* C8: for a non-empty valid text s, decode(s) has as many leading zero bytes
\* as s has leading "1" characters; k copies of "1" decode to k zero bytes.
C8_DecodeZeroPrefix ==
    \A i \in Calls :
        Op(i, "decode") /\ trace[i].arg # <<>> /\ BadPositions(trace[i].arg) = {}
            => /\ trace[i].out.err = NoErr
               /\ LeadingCount(trace[i].out.val, 0) = LeadingCount(trace[i].arg, "1")
               /\ LeadingCount(trace[i].arg, "1") = Len(trace[i].arg)
                     => trace[i].out.val = [j \in 1..Len(trace[i].arg) |-> 0]

C8_Witness ==
    /\ Op(1, "decode")
    /\ trace[1].arg = <<"1", "1">>
    /\ trace[1].out.val = <<0, 0>>

\* C9: encode(decode(s)) = s for every text s over the alphabet.
C9_Canonical ==
    \A i \in Calls :
        Op(i, "decode") /\ trace[i].out.err = NoErr /\ Op(i + 1, "encode")
            => trace[i + 1].out = trace[i].arg

C9_Witness ==
    /\ Op(1, "decode") /\ Op(2, "encode")
    /\ trace[1].arg = <<"1", "2", "z">>
    /\ trace[2].out = <<"1", "2", "z">>

\* C10: every text s that CBase58Data accepts decodes to at least 5 bytes and
\* str(CBase58Data(s)) = s.
C10_Reserialise ==
    \A i \in Calls :
        Op(i, "new") /\ trace[i].out.err = NoErr
            => /\ Len(decode(trace[i].arg).val) >= 5
               /\ Op(i + 1, "str") => trace[i + 1].out = trace[i].arg

====
